---- MODULE Spec2Model ----
(***************************************************************************)
(* Range-based set reconciliation (iroh-sync/src/ranger.rs): the range     *)
(* algebra, the reference store, the message-processing state machine of   *)
(* Peer and the alternating exchange that drives two peers to completion.  *)
(***************************************************************************)
EXTENDS Integers, Sequences, FiniteSets, TLC

\* Keys are 0..MaxKey under the usual order (the total order of RangeKey).
MaxKey == 3

Keys == 0..MaxKey

\* K::default(): for String / &str the empty string, the least key.
KeyDefault == 0

\* Two distinct values are enough to hold different entries under one key.
Values == {1, 2}

Peers == {"alice", "bob"}

\* Option<T>
None == <<>>

Some(v) == <<v>>

\* RangeEntry for (K, V): the key of an entry.
key(e) == e[1]

---------------------------------------------------------------------------
(* Fingerprint: a [u8; 32] seen as the set of its bits that are 1, so that *)
(* the bytewise ^= is the symmetric difference.  blake3 is modelled as a   *)
(* hash whose outputs on distinct inputs are linearly independent: every   *)
(* input owns one bit.                                                     *)

\* blake3::hash(&[]): bit 0.
Fingerprint_empty == {0}

\* The hash taken of the value alone.
as_fingerprint_value_only(e) == {1 + (e[2] - 1)}

\* as_fingerprint of (K, V): the hash of the debug text of key and value.
as_fingerprint(e) == {1 + e[1] * Cardinality(Values) + (e[2] - 1)}

\* BitXorAssign: a ^= b on every byte.
bitxor(a, b) == (a \ b) \cup (b \ a)

---------------------------------------------------------------------------
(* Range                                                                   *)

Range(x, y) == [x |-> x, y |-> y]

is_all(range) == range.x = range.y

\* contains with y taken as the inclusive end of a regular range.
contains_inclusive_end(range, t) ==
    IF range.x = range.y THEN TRUE
    ELSE IF range.x < range.y THEN range.x <= t /\ t <= range.y
    ELSE range.x <= t \/ t < range.y

\* contains with the wrap-around case joined by && instead of ||.
contains_wrap_and(range, t) ==
    IF range.x = range.y THEN TRUE
    ELSE IF range.x < range.y THEN range.x <= t /\ t < range.y
    ELSE range.x <= t /\ t < range.y

\* Range::contains: match self.x().cmp(self.y())
contains(range, t) ==
    IF range.x = range.y THEN TRUE
    ELSE IF range.x < range.y THEN range.x <= t /\ t < range.y
    ELSE range.x <= t \/ t < range.y

---------------------------------------------------------------------------
(* SimpleStore: data is a BTreeMap<K, V>, here a function whose domain is  *)
(* the set of stored keys.                                                 *)

EmptyData == [k \in {} |-> 1]

RECURSIVE SortedKeys(_)
SortedKeys(S) ==
    IF S = {} THEN <<>>
    ELSE LET m == CHOOSE k \in S : \A j \in S : k <= j
         IN  <<m>> \o SortedKeys(S \ {m})

\* self.data.iter(): the entries in ascending key order.
BTreeIter(data) ==
    LET ks == SortedKeys(DOMAIN data)
    IN  [i \in 1..Len(ks) |-> <<ks[i], data[ks[i]]>>]

\* The closure `filter` of SimpleRangeIterator::next.
iter_filter(range, k) == IF range = None THEN TRUE ELSE contains(range[1], k)

\* SimpleRangeIterator: everything next() yields until the map iterator ends;
\* `range` is the Option<Range<K>> field.
RECURSIVE SimpleRangeIterator(_, _)
SimpleRangeIterator(iter, range) ==
    IF iter = <<>> THEN <<>>
    ELSE IF iter_filter(range, key(Head(iter)))
         THEN <<Head(iter)>> \o SimpleRangeIterator(Tail(iter), range)
         ELSE SimpleRangeIterator(Tail(iter), range)

\* get_range yielding the keys from x upwards first and those below y after
\* them when the range wraps around.
get_range_wrap_order(data, range) ==
    IF range.x > range.y
    THEN SimpleRangeIterator(BTreeIter(data), Some(Range(range.x, MaxKey + 1)))
         \o SimpleRangeIterator(BTreeIter(data), Some(Range(-1, range.y)))
    ELSE SimpleRangeIterator(BTreeIter(data), Some(range))

get_range(data, range) == SimpleRangeIterator(BTreeIter(data), Some(range))

all(data) == SimpleRangeIterator(BTreeIter(data), None)

\* get_first taking the last key of the map instead of the first.
get_first_last(data) ==
    IF DOMAIN data # {}
    THEN CHOOSE k \in DOMAIN data : \A j \in DOMAIN data : k >= j
    ELSE KeyDefault

get_first(data) ==
    IF DOMAIN data # {}
    THEN CHOOSE k \in DOMAIN data : \A j \in DOMAIN data : k <= j
    ELSE KeyDefault

get(data, k) == IF k \in DOMAIN data THEN Some(<<k, data[k]>>) ELSE None

len(data) == Cardinality(DOMAIN data)

is_empty(data) == DOMAIN data = {}

RECURSIVE xor_all(_, _)
xor_all(fp, elements) ==
    IF elements = <<>> THEN fp
    ELSE xor_all(bitxor(fp, as_fingerprint(Head(elements))), Tail(elements))

\* get_fingerprint starting from the all-zero fingerprint.
get_fingerprint_zero(data, range) == xor_all({}, get_range(data, range))

get_fingerprint(data, range) == xor_all(Fingerprint_empty, get_range(data, range))

\* put that leaves the entry of a key the map already holds.
put_keep_existing(data, e) ==
    [k \in DOMAIN data \cup {e[1]} |->
        IF k \in DOMAIN data THEN data[k] ELSE e[2]]

put(data, e) ==
    [k \in DOMAIN data \cup {e[1]} |-> IF k = e[1] THEN e[2] ELSE data[k]]

remove(data, k) == [j \in DOMAIN data \ {k} |-> data[j]]

---------------------------------------------------------------------------
(* Message parts                                                           *)

RangeFingerprint(range, fingerprint) ==
    [type |-> "RangeFingerprint", range |-> range, fingerprint |-> fingerprint,
     values |-> <<>>, have_local |-> FALSE]

RangeItem(range, values, have_local) ==
    [type |-> "RangeItem", range |-> range, fingerprint |-> {},
     values |-> values, have_local |-> have_local]

is_range_fingerprint(part) == part.type = "RangeFingerprint"

is_range_item(part) == part.type = "RangeItem"

\* Message::init sending the xor of the entries without Fingerprint::empty().
Message_init_zero(data) ==
    LET x == get_first(data)
        range == Range(x, x)
    IN  <<RangeFingerprint(range, xor_all({}, get_range(data, range)))>>

\* Message::init
Message_init(data) ==
    LET x == get_first(data)
        range == Range(x, x)
        fingerprint == get_fingerprint(data, range)
    IN  <<RangeFingerprint(range, fingerprint)>>

\* Peer::initial_message
initial_message(data) == Message_init(data)

---------------------------------------------------------------------------
(* Peer::process_message                                                   *)

\* validate_cb: Fn(&S, &E) -> bool.  The callbacks of the tests are |_, _| true
\* ("accept") and one that records the entry and returns false ("reject");
\* "limit" is a callback that looks at the store it is handed: it accepts
\* while the store holds fewer than two entries.
validate_cb(policy, data, entry) ==
    \/ policy = "accept"
    \/ policy = "limit" /\ len(data) < 2

\* values.iter().any(|entry| existing.key() == entry.key())
any_key(values, existing) ==
    \E i \in 1..Len(values) : key(existing) = key(values[i])

\* A fallible Store.  The store calls of one process_message are counted from 1
\* in the order the code makes them (get_range, put, get_fingerprint); a fault
\* names the call that goes wrong and how: "call" makes that call return Err,
\* "elem" makes the iterator that call returns yield Err in place of its first
\* entry.  SimpleStore has Error = Infallible: it runs under NoFault.
NoFault == [at |-> 0, how |-> "none"]

call_fails(fault, n) == fault.how = "call" /\ fault.at = n

elem_fails(fault, n) == fault.how = "elem" /\ fault.at = n

\* Result<T, S::Error>
Ok(v) == [err |-> FALSE, val |-> v]

Err == [err |-> TRUE, val |-> <<>>]

\* self.store.get_range(range)? as store call n, collected by
\* .collect::<Result<_, _>>()?
collect_range(data, range, n, fault) ==
    IF call_fails(fault, n) THEN Err
    ELSE IF elem_fails(fault, n) /\ get_range(data, range) # <<>> THEN Err
    ELSE Ok(get_range(data, range))

\* The diff taken of everything the store holds, not of the range of the part.
item_diff_whole_store(data, item, n, fault) ==
    IF item.have_local THEN Ok(None)
    ELSE IF call_fails(fault, n) THEN Err
    ELSE Ok(Some(SelectSeq(all(data), LAMBDA e : ~any_key(item.values, e))))

\* The diff without the filter on the keys of the received values.
item_diff_unfiltered(data, item, n, fault) ==
    IF item.have_local THEN Ok(None)
    ELSE LET existing == collect_range(data, item.range, n, fault)
         IN  IF existing.err THEN Err ELSE Ok(Some(existing.val))

\* let diff: Option<Vec<_>> = ...; the get_range of it is store call n.  An Err
\* element passes the filter_map and makes the collect fail.
item_diff(data, item, n, fault) ==
    IF item.have_local THEN Ok(None)
    ELSE LET existing == collect_range(data, item.range, n, fault)
         IN  IF existing.err THEN Err
             ELSE Ok(Some(SelectSeq(existing.val,
                                    LAMBDA e : ~any_key(item.values, e))))

\* The `?` of store call n of the running call s: the store returned Err
\* (failed) and process_message returns it (err).
return_err(s, n) == [s EXCEPT !.calls = n, !.failed = TRUE, !.err = TRUE]

\* The loop storing every incoming value without asking validate_cb.
RECURSIVE store_incoming_unchecked(_, _, _, _)
store_incoming_unchecked(s, values, policy, fault) ==
    IF values = <<>> THEN s
    ELSE IF call_fails(fault, s.calls + 1)
    THEN return_err([s EXCEPT !.seen = Append(@, Head(values))], s.calls + 1)
    ELSE store_incoming_unchecked(
             [s EXCEPT !.calls = @ + 1, !.seen = Append(@, Head(values)),
                       !.store = put(@, Head(values))],
             Tail(values), policy, fault)

\* Every incoming value is validated against the store as it was before the
\* first of them was stored.
store_incoming_validate_first(s, values, policy, fault) ==
    LET accepted == SelectSeq(values, LAMBDA e : validate_cb(policy, s.store, e))
    IN  [store_incoming_unchecked(s, accepted, policy, fault)
            EXCEPT !.seen = s.seen \o values]

\* The loop taking a rejected entry as the order to drop what the store holds
\* under its key.
RECURSIVE store_incoming_reject_removes(_, _, _, _)
store_incoming_reject_removes(s, values, policy, fault) ==
    IF values = <<>> THEN s
    ELSE LET entry == Head(values)
             t == [s EXCEPT !.seen = Append(@, entry)]
         IN  IF ~validate_cb(policy, s.store, entry)
             THEN store_incoming_reject_removes(
                      [t EXCEPT !.store = remove(@, key(entry))],
                      Tail(values), policy, fault)
             ELSE IF call_fails(fault, s.calls + 1)
             THEN return_err(t, s.calls + 1)
             ELSE store_incoming_reject_removes(
                      [t EXCEPT !.calls = @ + 1, !.store = put(@, entry)],
                      Tail(values), policy, fault)

\* for entry in values { if validate_cb(&self.store, &entry) { self.store.put(entry)?; } }
\* s is the running state of the call: the store, the store calls made, the
\* entries validate_cb was called with, out, whether the store has returned or
\* yielded an Err, and whether a `?` has returned it.
RECURSIVE store_incoming(_, _, _, _)
store_incoming(s, values, policy, fault) ==
    IF values = <<>> THEN s
    ELSE LET entry == Head(values)
             t == [s EXCEPT !.seen = Append(@, entry)]
         IN  IF ~validate_cb(policy, s.store, entry)
             THEN store_incoming(t, Tail(values), policy, fault)
             ELSE IF call_fails(fault, s.calls + 1)
             THEN return_err(t, s.calls + 1)
             ELSE store_incoming([t EXCEPT !.calls = @ + 1,
                                           !.store = put(@, entry)],
                                 Tail(values), policy, fault)

\* The diff is computed and never sent back.
item_reply_never(item, diff) == <<>>

\* The diff is sent back with have_local = false, asking for a reply in turn.
item_reply_request_again(item, diff) ==
    IF diff # None /\ diff[1] # <<>>
    THEN <<RangeItem(item.range, diff[1], FALSE)>>
    ELSE <<>>

\* The diff is sent back also when it is empty.
item_reply_empty_too(item, diff) ==
    IF diff # None THEN <<RangeItem(item.range, diff[1], TRUE)>> ELSE <<>>

\* if let Some(diff) = diff { if !diff.is_empty() { out.push(...) } }
item_reply(item, diff) ==
    IF diff # None /\ diff[1] # <<>>
    THEN <<RangeItem(item.range, diff[1], TRUE)>>
    ELSE <<>>

\* The loop over `items`.
RECURSIVE process_items(_, _, _, _)
process_items(s, items, policy, fault) ==
    IF items = <<>> \/ s.err THEN s
    ELSE LET item == Head(items)
             n == IF item.have_local THEN s.calls ELSE s.calls + 1
             diff == item_diff(s.store, item, n, fault)
         IN  IF diff.err THEN return_err(s, n)
             ELSE LET t == store_incoming([s EXCEPT !.calls = n], item.values,
                                          policy, fault)
                  IN  IF t.err THEN t
                      ELSE process_items(
                               [t EXCEPT !.out = @ \o item_reply(item, diff.val)],
                               Tail(items), policy, fault)

\* The pivots counted from the smallest local key, whatever range.x is.
start_index_zero(local_values, range) == 0

\* local_values.iter().position(|el| el.key() >= range.x()).unwrap_or(0)
start_index(local_values, range) ==
    LET hits == {i \in 1..Len(local_values) : key(local_values[i]) >= range.x}
    IN  IF hits = {} THEN 0
        ELSE (CHOOSE i \in hits : \A j \in hits : i <= j) - 1

\* The closure `pivot`; indices are 0-based as in the code.
pivot(local_values, range, split_factor, i) ==
    LET j == i % split_factor
        offset == (Len(local_values) * (j + 1)) \div split_factor
        idx == (start_index(local_values, range) + offset) % Len(local_values)
    IN  key(local_values[idx + 1])

\* The pairs of pivots pushed without the test `if x != y`.
RECURSIVE pivot_ranges_keep_empty(_, _, _, _, _)
pivot_ranges_keep_empty(local_values, range, split_factor, lo, hi) ==
    IF lo >= hi THEN <<>>
    ELSE <<Range(pivot(local_values, range, split_factor, lo),
                 pivot(local_values, range, split_factor, lo + 1))>>
         \o pivot_ranges_keep_empty(local_values, range, split_factor, lo + 1,
                                    hi)

\* for i in lo..hi: push (pivot(i), pivot(i + 1)) unless the two are equal
RECURSIVE pivot_ranges(_, _, _, _, _)
pivot_ranges(local_values, range, split_factor, lo, hi) ==
    IF lo >= hi THEN <<>>
    ELSE LET x == pivot(local_values, range, split_factor, lo)
             y == pivot(local_values, range, split_factor, lo + 1)
         IN  (IF x # y THEN <<Range(x, y)>> ELSE <<>>)
             \o pivot_ranges(local_values, range, split_factor, lo + 1, hi)

\* The split whose last range starts at range.x instead of the last pivot.
split_ranges_overlap(local_values, range, split_factor) ==
    IF is_all(range)
    THEN pivot_ranges(local_values, range, split_factor, 0, split_factor)
    ELSE <<Range(range.x, pivot(local_values, range, split_factor, 0))>>
         \o pivot_ranges(local_values, range, split_factor, 0, split_factor - 2)
         \o <<Range(range.x, range.y)>>

\* Case 3: the vector `ranges`.
split_ranges(local_values, range, split_factor) ==
    IF is_all(range)
    THEN pivot_ranges(local_values, range, split_factor, 0, split_factor)
    ELSE <<Range(range.x, pivot(local_values, range, split_factor, 0))>>
         \o pivot_ranges(local_values, range, split_factor, 0, split_factor - 2)
         \o <<Range(pivot(local_values, range, split_factor, split_factor - 2),
                    range.y)>>

\* The items of a split sent with have_local = true.
split_part_have_local(data, range, max_set_size) ==
    LET chunk == get_range(data, range)
        fingerprint == get_fingerprint(data, range)
    IN  IF Len(chunk) > max_set_size
        THEN RangeFingerprint(range, fingerprint)
        ELSE RangeItem(range, chunk, TRUE)

\* The part pushed for one range of the split.
split_part(data, range, max_set_size) ==
    LET chunk == get_range(data, range)
        fingerprint == get_fingerprint(data, range)
    IN  IF Len(chunk) > max_set_size
        THEN RangeFingerprint(range, fingerprint)
        ELSE RangeItem(range, chunk, FALSE)

\* The number of ranges whose chunk is not empty.
non_empty(data, ranges) ==
    Cardinality({i \in 1..Len(ranges) : get_range(data, ranges[i]) # <<>>})

\* The loop taking the entries it ships as items out of the store.
RECURSIVE split_chunks_take(_, _, _, _)
split_chunks_take(s, ranges, max_set_size, fault) ==
    IF ranges = <<>> THEN s
    ELSE LET range == Head(ranges)
             chunk == get_range(s.store, range)
             part == split_part(s.store, range, max_set_size)
         IN  split_chunks_take(
                 [s EXCEPT !.calls = @ + 2,
                           !.out = Append(@, part),
                           !.store = IF is_range_item(part) /\ chunk # <<>>
                                     THEN remove(@, key(chunk[1])) ELSE @],
                 Tail(ranges), max_set_size, fault)

\* for range in ranges { ... }: get_range is store call s.calls + 1 and
\* get_fingerprint the one after it.  chunk is a Vec of Results: an Err element
\* counts for its length and comes out only where the values are collected.
RECURSIVE split_chunks(_, _, _, _)
split_chunks(s, ranges, max_set_size, fault) ==
    IF ranges = <<>> THEN s
    ELSE LET range == Head(ranges)
             n == s.calls + 1
             chunk == get_range(s.store, range)
             yielded_err == elem_fails(fault, n) /\ chunk # <<>>
         IN  IF call_fails(fault, n) THEN return_err(s, n)
             ELSE IF call_fails(fault, n + 1) THEN return_err(s, n + 1)
             ELSE IF Len(chunk) <= max_set_size /\ yielded_err
             THEN return_err(s, n + 1)
             ELSE split_chunks(
                      [s EXCEPT !.calls = n + 1,
                                !.failed = @ \/ yielded_err,
                                !.out = Append(@, split_part(s.store, range,
                                                             max_set_size))],
                      Tail(ranges), max_set_size, fault)

\* The anchor taken only for ranges with at most one local entry.
recursion_anchor_len_only(local_values, fingerprint) == Len(local_values) <= 1

\* Case 2: local_values.len() <= 1 || fingerprint == Fingerprint::empty()
recursion_anchor(local_values, fingerprint) ==
    Len(local_values) <= 1 \/ fingerprint = Fingerprint_empty

\* The local values sent as if the sender of the fingerprint held them.
anchor_part_have_local(range, local_values) ==
    RangeItem(range, local_values, TRUE)

\* Case 2: the part pushed.
anchor_part(range, local_values) == RangeItem(range, local_values, FALSE)

\* One RangeFingerprint of the inbound message; ok tells whether
\* debug_assert!(non_empty > 1) held.
respond_fingerprint(s, rf, max_set_size, split_factor, fault) ==
    LET n == s.calls + 1
        local_fingerprint == get_fingerprint(s.store, rf.range)
        local_values == collect_range(s.store, rf.range, n + 1, fault)
    IN  IF call_fails(fault, n) THEN return_err(s, n)
        ELSE IF local_fingerprint = rf.fingerprint THEN [s EXCEPT !.calls = n]
        ELSE IF local_values.err THEN return_err(s, n + 1)
        ELSE IF recursion_anchor(local_values.val, rf.fingerprint)
        THEN [s EXCEPT !.calls = n + 1,
                       !.out = Append(@, anchor_part(rf.range,
                                                     local_values.val))]
        ELSE LET ranges == split_ranges(local_values.val, rf.range, split_factor)
                 t == split_chunks([s EXCEPT !.calls = n + 1], ranges,
                                   max_set_size, fault)
             IN  IF t.err THEN t
                 ELSE [t EXCEPT !.ok = non_empty(s.store, ranges) > 1]

\* The loop over `fingerprints`; it stops at a `?` that returned and at a failed
\* debug_assert.
RECURSIVE process_fingerprints(_, _, _, _, _)
process_fingerprints(s, fingerprints, max_set_size, split_factor, fault) ==
    IF fingerprints = <<>> \/ s.err \/ ~s.ok THEN s
    ELSE process_fingerprints(
             respond_fingerprint(s, Head(fingerprints), max_set_size,
                                 split_factor, fault),
             Tail(fingerprints), max_set_size, split_factor, fault)

\* The parts handled one after the other in the order of the message.
RECURSIVE process_parts(_, _, _, _, _, _)
process_parts(s, parts, max_set_size, split_factor, policy, fault) ==
    IF parts = <<>> \/ s.err \/ ~s.ok THEN s
    ELSE process_parts(
             IF is_range_item(Head(parts))
             THEN process_items(s, <<Head(parts)>>, policy, fault)
             ELSE process_fingerprints(s, <<Head(parts)>>, max_set_size,
                                       split_factor, fault),
             Tail(parts), max_set_size, split_factor, policy, fault)

\* process_message without the two vectors `items` and `fingerprints`.
process_message_in_order(data, max_set_size, split_factor, message, policy, fault) ==
    process_parts([store |-> data, out |-> <<>>, seen |-> <<>>, calls |-> 0,
                   failed |-> FALSE, err |-> FALSE, ok |-> TRUE],
                  message, max_set_size, split_factor, policy, fault)

\* process_message answering the fingerprints before it stores the items.
process_message_fingerprints_first(data, max_set_size, split_factor, message, policy, fault) ==
    LET items == SelectSeq(message, is_range_item)
        fingerprints == SelectSeq(message, is_range_fingerprint)
        s0 == [store |-> data, out |-> <<>>, seen |-> <<>>, calls |-> 0,
               failed |-> FALSE, err |-> FALSE, ok |-> TRUE]
        b == process_fingerprints(s0, fingerprints, max_set_size, split_factor,
                                  fault)
    IN  process_items(b, items, policy, fault)

\* process_message on a store that runs into `fault`: the store after the call,
\* the parts of `out`, the entries validate_cb was called with, the number of
\* store calls made, whether one of them returned or yielded an Err, whether
\* the call returned Err and whether the debug assertion held.  A call that
\* does not return Err returns None if out is empty and Some(out) otherwise.
process_message_on(data, max_set_size, split_factor, message, policy, fault) ==
    LET items == SelectSeq(message, is_range_item)
        fingerprints == SelectSeq(message, is_range_fingerprint)
        s0 == [store |-> data, out |-> <<>>, seen |-> <<>>, calls |-> 0,
               failed |-> FALSE, err |-> FALSE, ok |-> TRUE]
        a == process_items(s0, items, policy, fault)
    IN  process_fingerprints(a, fingerprints, max_set_size, split_factor, fault)

\* The call returning Some(Message { parts: out }) whatever out holds.
returned_always_some(s) == IF s.err THEN Err ELSE Ok(Some(s.out))

\* What the call that ran as s returns: the Err of a `?`, or
\* if !out.is_empty() { Ok(Some(Message { parts: out })) } else { Ok(None) }
returned(s) ==
    IF s.err THEN Err ELSE Ok(IF s.out # <<>> THEN Some(s.out) ELSE None)

\* process_message of a Peer over SimpleStore, whose calls never fail.
process_message(data, max_set_size, split_factor, message, policy) ==
    process_message_on(data, max_set_size, split_factor, message, policy,
                       NoFault)

---------------------------------------------------------------------------
(* Two peers and the exchange of sync_exchange_messages                    *)

VARIABLES
    store,          \* Peer.store.data of each peer
    max_set_size,   \* Peer.max_set_size of each peer
    split_factor,   \* Peer.split_factor of each peer
    validate,       \* the validate callback each peer is driven with
    store0,         \* the sets the two peers were filled with
    pc,             \* where the exchange stands
    msg,            \* the parts of the message in flight
    alice_to_bob,   \* the messages Alice sent, as the exchange records them
    bob_to_alice,   \* the messages Bob sent
    validated,      \* the entries each peer's validate callback was called with
    rounds,         \* the round counter of the exchange
    call            \* the last call made on Alice's store from outside a session

vars == <<store, max_set_size, split_factor, validate, store0, pc, msg,
          alice_to_bob, bob_to_alice, validated, rounds, call>>

NoCall == [op |-> "none"]

\* sync_exchange_messages(alice, bob, .., 100)
max_rounds == 100

\* Every map over a subset of the keys with values in vals.
Maps(vals) == UNION {[S -> vals] : S \in SUBSET Keys}

\* Peer::default() / Peer::from_store
Peer_max_set_size == 1

Peer_split_factor == 2

\* Both peers are built by Peer::default() and filled by put.  The protocol
\* looks at a value only through the fingerprint of its entry, so Alice's
\* values are all the first value and Bob's are any.  The two callbacks are
\* those of sync (both accept) or those of test_validate_cb (both reject).
Init ==
    /\ store0 \in [alice : Maps({1}), bob : Maps(Values)]
    /\ store = store0
    /\ max_set_size = [p \in Peers |-> Peer_max_set_size]
    /\ split_factor = [p \in Peers |-> Peer_split_factor]
    /\ validate \in {[p \in Peers |-> "accept"], [p \in Peers |-> "reject"]}
    /\ pc = "start"
    /\ msg = <<>>
    /\ alice_to_bob = <<>>
    /\ bob_to_alice = <<>>
    /\ validated = [p \in Peers |-> <<>>]
    /\ rounds = 0
    /\ call = NoCall

\* let initial_message = alice.initial_message().unwrap(); also the start of a
\* further session once one has ended.
InitialMessage ==
    /\ pc \in {"start", "done"}
    /\ msg' = initial_message(store["alice"])
    /\ pc' = "toBob"
    /\ alice_to_bob' = <<>>
    /\ bob_to_alice' = <<>>
    /\ validated' = [p \in Peers |-> <<>>]
    /\ rounds' = 0
    /\ UNCHANGED <<store, max_set_size, split_factor, validate, store0, call>>

\* One pass of the while loop up to and including bob.process_message.
BobProcess ==
    /\ pc = "toBob"
    /\ IF rounds >= max_rounds
       THEN /\ pc' = "too_many_rounds"
            /\ UNCHANGED <<store, msg, alice_to_bob, bob_to_alice, validated,
                           rounds>>
       ELSE LET r == process_message(store["bob"], max_set_size["bob"],
                                     split_factor["bob"], msg, validate["bob"])
            IN  /\ rounds' = rounds + 1
                /\ alice_to_bob' = Append(alice_to_bob, msg)
                /\ store' = [store EXCEPT !["bob"] = r.store]
                /\ validated' = [validated EXCEPT !["bob"] = @ \o r.seen]
                /\ IF ~r.ok
                   THEN /\ pc' = "panicked"
                        /\ UNCHANGED <<msg, bob_to_alice>>
                   ELSE IF returned(r) = Ok(None)
                   THEN /\ pc' = "done"
                        /\ msg' = <<>>
                        /\ UNCHANGED bob_to_alice
                   ELSE /\ pc' = "toAlice"
                        /\ msg' = returned(r).val[1]
                        /\ bob_to_alice' = Append(bob_to_alice,
                                                  returned(r).val[1])
    /\ UNCHANGED <<max_set_size, split_factor, validate, store0, call>>

\* next_to_bob = alice.process_message(msg, &alice_validate_cb).unwrap()
AliceProcess ==
    /\ pc = "toAlice"
    /\ LET r == process_message(store["alice"], max_set_size["alice"],
                                split_factor["alice"], msg, validate["alice"])
       IN  /\ store' = [store EXCEPT !["alice"] = r.store]
           /\ validated' = [validated EXCEPT !["alice"] = @ \o r.seen]
           /\ IF ~r.ok
              THEN /\ pc' = "panicked"
                   /\ UNCHANGED msg
              ELSE IF returned(r) = Ok(None)
              THEN /\ pc' = "done"
                   /\ msg' = <<>>
              ELSE /\ pc' = "toBob"
                   /\ msg' = returned(r).val[1]
    /\ UNCHANGED <<max_set_size, split_factor, validate, store0, alice_to_bob,
                   bob_to_alice, rounds, call>>

Next == InitialMessage \/ BobProcess \/ AliceProcess

Spec == Init /\ [][Next]_vars

---------------------------------------------------------------------------
(* One SimpleStore driven through the Store trait: Alice's store, built by *)
(* SimpleStore::default(), filled and emptied by put and remove and read   *)
(* by the queries, with ranges and keys chosen freely.  A query is a call  *)
(* whose result the caller takes before it makes the next call.            *)

sessionVars == <<max_set_size, split_factor, validate, store0, pc, msg,
                 alice_to_bob, bob_to_alice, validated, rounds>>

StoreInit ==
    /\ store0 = [p \in Peers |-> EmptyData]
    /\ store = store0
    /\ max_set_size = [p \in Peers |-> Peer_max_set_size]
    /\ split_factor = [p \in Peers |-> Peer_split_factor]
    /\ validate = [p \in Peers |-> "accept"]
    /\ pc = "start"
    /\ msg = <<>>
    /\ alice_to_bob = <<>>
    /\ bob_to_alice = <<>>
    /\ validated = [p \in Peers |-> <<>>]
    /\ rounds = 0
    /\ call = NoCall

\* Peer::put / SimpleStore::put
Put ==
    \E k \in Keys, v \in Values :
        /\ call = NoCall
        /\ store' = [store EXCEPT !["alice"] = put(@, <<k, v>>)]
        /\ UNCHANGED <<call, sessionVars>>

\* SimpleStore::remove
Remove ==
    \E k \in Keys :
        /\ call = NoCall
        /\ store' = [store EXCEPT !["alice"] = remove(@, k)]
        /\ UNCHANGED <<call, sessionVars>>

\* Range::contains and Range::is_all
Contains ==
    \E x \in Keys, y \in Keys, t \in Keys :
        /\ call = NoCall
        /\ call' = [op |-> "contains", range |-> Range(x, y), t |-> t,
                    result |-> contains(Range(x, y), t),
                    is_all |-> is_all(Range(x, y))]
        /\ UNCHANGED <<store, sessionVars>>

\* store.get_range(range).collect()
GetRange ==
    \E x \in Keys, y \in Keys :
        /\ call = NoCall
        /\ call' = [op |-> "get_range", range |-> Range(x, y),
                    result |-> get_range(store["alice"], Range(x, y))]
        /\ UNCHANGED <<store, sessionVars>>

\* store.all().collect()
All ==
    /\ call = NoCall
    /\ call' = [op |-> "all", result |-> all(store["alice"])]
    /\ UNCHANGED <<store, sessionVars>>

\* store.get_fingerprint(&range)
GetFingerprint ==
    \E x \in Keys, y \in Keys :
        /\ call = NoCall
        /\ call' = [op |-> "get_fingerprint", range |-> Range(x, y),
                    result |-> get_fingerprint(store["alice"], Range(x, y))]
        /\ UNCHANGED <<store, sessionVars>>

\* store.get_first(), store.len(), store.is_empty()
GetFirst ==
    /\ call = NoCall
    /\ call' = [op |-> "get_first", result |-> get_first(store["alice"]),
                len |-> len(store["alice"]),
                is_empty |-> is_empty(store["alice"])]
    /\ UNCHANGED <<store, sessionVars>>

\* store.get(key)
Get ==
    \E k \in Keys :
        /\ call = NoCall
        /\ call' = [op |-> "get", key |-> k, result |-> get(store["alice"], k)]
        /\ UNCHANGED <<store, sessionVars>>

\* The caller has taken the result.
Return ==
    /\ call # NoCall
    /\ call' = NoCall
    /\ UNCHANGED <<store, sessionVars>>

StoreNext ==
    Put \/ Remove \/ Contains \/ GetRange \/ All \/ GetFingerprint \/ GetFirst
        \/ Get \/ Return

StoreSpec == StoreInit /\ [][StoreNext]_vars

---------------------------------------------------------------------------
(* One Peer handed inbound messages: Bob, built by Peer::default() as in    *)
(* StoreInit, whose process_message is called with messages of RangeItem   *)
(* parts, with any of the validate callbacks, and with messages during     *)
(* which a store call fails.  The call and what it returned are kept in    *)
(* `call` until the caller has taken the result.                           *)

\* bob.process_message(message, validate_cb) on a store that runs into fault
ProcessMessage(message, policy, fault) ==
    LET r == process_message_on(store["bob"], max_set_size["bob"],
                                split_factor["bob"], message, policy, fault)
    IN  /\ call' = [op |-> "process_message", message |-> message,
                    policy |-> policy, fault |-> fault,
                    before |-> store["bob"], result |-> r]
        /\ store' = [store EXCEPT !["bob"] = r.store]
        /\ UNCHANGED sessionVars

\* The value lists of the inbound RangeItem parts about a range: up to two
\* entries, in any order, also two under one key.
ItemValues(range) ==
    LET es == {<<range.x, 1>>, <<range.x, 2>>, <<range.y, 1>>}
    IN  {<<>>} \cup {<<a>> : a \in es} \cup {<<a, b>> : a \in es, b \in es}

\* A message of one RangeItem part, sent with have_local false or true, or of
\* that part and a second one.
ReceiveItems ==
    /\ call = NoCall
    /\ \E x \in Keys, y \in Keys, policy \in {"accept", "reject", "limit"} :
           \E values \in ItemValues(Range(x, y)) :
               \E message \in
                     {<<RangeItem(Range(x, y), values, FALSE)>>,
                      <<RangeItem(Range(x, y), values, TRUE)>>,
                      <<RangeItem(Range(x, y), values, FALSE),
                        RangeItem(Range(y, x), <<<<y, 2>>>>, FALSE)>>} :
                   ProcessMessage(message, policy, NoFault)

\* The store calls process_message makes for a message when none fails.
store_calls(message) ==
    process_message(store["bob"], max_set_size["bob"], split_factor["bob"],
                    message, "accept").calls

\* A message of one part during which one store call fails.
ReceiveFailing ==
    /\ call = NoCall
    /\ \E x \in Keys, y \in Keys, how \in {"call", "elem"} :
           \E message \in
                 {<<RangeItem(Range(x, y), <<<<x, 1>>, <<y, 2>>>>, FALSE)>>,
                  <<RangeFingerprint(Range(x, y), Fingerprint_empty)>>,
                  <<RangeFingerprint(Range(x, y),
                       get_fingerprint(put(EmptyData, <<x, 2>>), Range(x, y)))>>} :
               \E at \in 1..store_calls(message) :
                   ProcessMessage(message, "accept", [at |-> at, how |-> how])

PeerNext == ReceiveItems \/ ReceiveFailing \/ Return

PeerSpec == StoreInit /\ [][PeerNext]_vars

---------------------------------------------------------------------------
(* One Peer answering RangeFingerprint parts, for the values the two       *)
(* tunables of Peer may take.                                              *)

\* max_set_size: usize
MaxSetSizes == {0, 1, 2}

\* split_factor: "at least 2"
SplitFactors == {2, 3}

SplitInit ==
    /\ store0 = [p \in Peers |-> EmptyData]
    /\ store = store0
    /\ \E m \in MaxSetSizes : max_set_size = [p \in Peers |-> m]
    /\ \E k \in SplitFactors : split_factor = [p \in Peers |-> k]
    /\ validate = [p \in Peers |-> "accept"]
    /\ pc = "start"
    /\ msg = <<>>
    /\ alice_to_bob = <<>>
    /\ bob_to_alice = <<>>
    /\ validated = [p \in Peers |-> <<>>]
    /\ rounds = 0
    /\ call = NoCall

\* A message of one RangeFingerprint part, alone or after a RangeItem part
\* about the same range.  The fingerprint is that of the range in a set the
\* sender may hold: nothing, what Bob holds or will hold once the RangeItem is
\* stored, or one entry Bob does not hold.
ReceiveFingerprint ==
    /\ call = NoCall
    /\ \E x \in Keys, y \in Keys, with_item \in BOOLEAN :
           LET range == Range(x, y)
               item == RangeItem(range, <<<<x, 1>>>>, TRUE)
               remote == {EmptyData, store["bob"], put(store["bob"], <<x, 1>>),
                          put(EmptyData, <<x, 2>>)}
           IN  \E data \in remote :
                   ProcessMessage(
                       (IF with_item THEN <<item>> ELSE <<>>)
                           \o <<RangeFingerprint(range,
                                                 get_fingerprint(data, range))>>,
                       "accept", NoFault)

\* A message whose RangeFingerprint part comes before a RangeItem part about
\* the same range, which asks for a reply; the callback accepts or rejects.
ReceiveFingerprintFirst ==
    /\ call = NoCall
    /\ \E x \in Keys, y \in Keys, policy \in {"accept", "reject"} :
           LET range == Range(x, y)
               item == RangeItem(range, <<<<x, 1>>>>, FALSE)
               remote == {store["bob"], put(store["bob"], <<x, 1>>),
                          put(EmptyData, <<x, 2>>)}
           IN  \E data \in remote :
                   ProcessMessage(
                       <<RangeFingerprint(range, get_fingerprint(data, range)),
                         item>>,
                       policy, NoFault)

\* A message that brings no value: a RangeItem part without values, alone or
\* after a RangeFingerprint part of a set Bob does not hold.
ReceiveNoValues ==
    /\ call = NoCall
    /\ \E x \in Keys, y \in Keys, have_local \in BOOLEAN :
           LET range == Range(x, y)
               item == RangeItem(range, <<>>, have_local)
               fingerprint == get_fingerprint(put(EmptyData, <<x, 2>>), range)
           IN  \E message \in {<<item>>,
                                <<RangeFingerprint(range, fingerprint), item>>} :
                   ProcessMessage(message, "accept", NoFault)

SplitNext ==
    ReceiveFingerprint \/ ReceiveFingerprintFirst \/ ReceiveNoValues \/ Return

SplitSpec == SplitInit /\ [][SplitNext]_vars

---------------------------------------------------------------------------
(* The exchange of test_paper_1 (Meyer, Fig. 1) and of the sets it is made  *)
(* of: Alice holds some of her four animals and Bob some of his six, all   *)
(* with value 1, and sync runs them with both callbacks accepting.         *)

\* The keys of the test in their order as strings; an animal's key is its
\* place in it, so that every animal is greater than the default key "".
Animals == <<"ape", "bee", "cat", "doe", "eel", "fox", "gnu", "hog">>

Animal(name) == CHOOSE i \in 1..Len(Animals) : Animals[i] = name

\* The set holding the named animals, each with value 1.
SetOf(names) == [k \in {Animal(n) : n \in names} |-> 1]

alice_set == SetOf({"ape", "eel", "fox", "gnu"})

bob_set == SetOf({"bee", "cat", "doe", "eel", "fox", "hog"})

\* The subsets of a set, as maps.
Subsets(data) == {[k \in S |-> data[k]] : S \in SUBSET DOMAIN data}

PaperInit ==
    /\ store0 \in [alice : Subsets(alice_set), bob : Subsets(bob_set)]
    /\ store = store0
    /\ max_set_size = [p \in Peers |-> Peer_max_set_size]
    /\ split_factor = [p \in Peers |-> Peer_split_factor]
    /\ validate = [p \in Peers |-> "accept"]
    /\ pc = "start"
    /\ msg = <<>>
    /\ alice_to_bob = <<>>
    /\ bob_to_alice = <<>>
    /\ validated = [p \in Peers |-> <<>>]
    /\ rounds = 0
    /\ call = NoCall

PaperSpec == PaperInit /\ [][Next]_vars

---------------------------------------------------------------------------
(* The exchange with a Peer::put from outside it: while a message is in    *)
(* flight the owner of either peer may put an entry, once per run.  The    *)
(* two sets hold the first value and the callbacks accept, as in sync.     *)

ConcurrentInit ==
    /\ Init
    /\ store0 \in [alice : Maps({1}), bob : Maps({1})]
    /\ validate = [p \in Peers |-> "accept"]

\* peer.put(entry) between two process_message calls of the session
PutInFlight ==
    /\ pc \in {"toBob", "toAlice"}
    /\ rounds >= 1
    /\ call = NoCall
    /\ \E p \in Peers, k \in Keys, v \in Values :
           /\ store' = [store EXCEPT ![p] = put(@, <<k, v>>)]
           /\ call' = [op |-> "put", peer |-> p, entry |-> <<k, v>>,
                       rounds |-> rounds]
    /\ UNCHANGED sessionVars

ConcurrentNext == InitialMessage \/ BobProcess \/ AliceProcess \/ PutInFlight

ConcurrentSpec == ConcurrentInit /\ [][ConcurrentNext]_vars

---------------------------------------------------------------------------
(* Vocabulary of the properties                                            *)

AcceptAll == validate = [p \in Peers |-> "accept"]

RejectAll == validate = [p \in Peers |-> "reject"]

Entries(data) == {<<k, data[k]>> : k \in DOMAIN data}

Ran(s) == {s[i] : i \in 1..Len(s)}

\* A and B agree on the entry of every key they share.
Agree0 ==
    \A k \in DOMAIN store0["alice"] \cap DOMAIN store0["bob"] :
        store0["alice"][k] = store0["bob"][k]

\* A \cup B as a map, for agreeing A and B.
Union0 ==
    [k \in DOMAIN store0["alice"] \cup DOMAIN store0["bob"] |->
        IF k \in DOMAIN store0["alice"] THEN store0["alice"][k]
        ELSE store0["bob"][k]]

RECURSIVE Flatten(_)
Flatten(ss) == IF ss = <<>> THEN <<>> ELSE Head(ss) \o Flatten(Tail(ss))

\* The values of all RangeItem parts of a list of messages, in order.
SentValues(msgs) ==
    LET parts == Flatten(msgs)
    IN  Flatten([i \in 1..Len(parts) |-> parts[i].values])

NoDuplicateKey(vs) ==
    \A i, j \in 1..Len(vs) : i # j => key(vs[i]) # key(vs[j])

\* Everything Alice has sent in this session, the message in flight included.
AliceSent ==
    SentValues(alice_to_bob \o (IF pc = "toBob" THEN <<msg>> ELSE <<>>))

BobSent == SentValues(bob_to_alice)

\* The exchange is a loop of calls: whenever a message is in flight the next
\* call is enabled (BobProcess and AliceProcess have no guard but pc) and is
\* the only step, and every pass counts a round.  So a
\* session ends with a process_message that returns None unless it runs into
\* the round limit or the debug assertion, and it does so within RoundLimit
\* rounds.
RoundLimit == Cardinality(Keys) + 1

Terminates ==
    /\ pc \notin {"too_many_rounds", "panicked"}
    /\ rounds <= RoundLimit

---------------------------------------------------------------------------
\* C1: when validate accepts everything and A, B agree on shared keys, a
\* session that has ended leaves both stores equal to A \cup B.
C1_Convergence ==
    (AcceptAll /\ Agree0 /\ pc = "done") =>
        (store["alice"] = Union0 /\ store["bob"] = Union0)

\* A session of several rounds between sets that each lack a key of the other
\* has ended with both stores equal to the union.
C1_Witness ==
    /\ AcceptAll /\ Agree0 /\ pc = "done"
    /\ DOMAIN store0["alice"] \ DOMAIN store0["bob"] # {}
    /\ DOMAIN store0["bob"] \ DOMAIN store0["alice"] # {}
    /\ Len(alice_to_bob) >= 3
    /\ store["alice"] = Union0 /\ store["bob"] = Union0

\* C2: every session ends: the exchange never hits the round limit or a failed
\* assertion, and the number of rounds stays within RoundLimit, whatever the
\* two sets and the validate callbacks are.
C2_Termination == Terminates

\* A session that needed three rounds has ended.
C2_Witness == pc = "done" /\ rounds >= 3 /\ Len(bob_to_alice) >= 2

\* C3: with validate accepting everything, no key occurs twice among the
\* values Alice has sent in a session, nor among those Bob has sent.
C3_NoDuplicateSends ==
    AcceptAll => (NoDuplicateKey(AliceSent) /\ NoDuplicateKey(BobSent))

\* A finished session in which both peers shipped values over several messages.
C3_Witness ==
    /\ AcceptAll /\ pc = "done"
    /\ Len(AliceSent) >= 2 /\ Len(BobSent) >= 2
    /\ Len(alice_to_bob) >= 3

\* C4: if the stores are equal when Bob processes Alice's initial message, the
\* call returns None: the session is that single message, with no reply, and
\* no store changes.
C4_Idempotence ==
    [][(pc = "toBob" /\ rounds = 0 /\ store["alice"] = store["bob"]) =>
          /\ pc' = "done"
          /\ store' = store
          /\ Len(alice_to_bob') = 1
          /\ bob_to_alice' = <<>>]_vars

\* A second session, after one that changed both stores, has ended after the
\* initial message alone.
C4_Witness ==
    /\ pc = "done" /\ rounds = 1 /\ bob_to_alice = <<>>
    /\ store["alice"] = store["bob"]
    /\ store["alice"] # store0["alice"] /\ store["bob"] # store0["bob"]

\* C5: if both validate callbacks reject everything, both stores stay as they
\* were at every point of the session, and the session ends.
C5_ValidateRejectNoOp == RejectAll => (store = store0 /\ Terminates)

\* A session between sets with entries to ship both ways has ended with every
\* entry rejected.
C5_Witness ==
    /\ RejectAll /\ pc = "done"
    /\ validated["alice"] # <<>> /\ validated["bob"] # <<>>
    /\ store = store0

\* C6 as stated: under reject-all each hook has seen, at the end, every entry of
\* the other peer's starting set exactly once and nothing else.
C6_Original ==
    (RejectAll /\ pc = "done") =>
        /\ Ran(validated["alice"]) = Entries(store0["bob"])
        /\ Ran(validated["bob"]) = Entries(store0["alice"])
        /\ NoDuplicateKey(validated["alice"])
        /\ NoDuplicateKey(validated["bob"])

\* C6 amended: under reject-all each hook is called at most once per entry and
\* only with entries of the other peer's starting set, and at the end it has
\* been called with every such entry whose key its own peer does not hold; for
\* sets without a common key that is every entry of the other set.
C6_ValidateCoverage ==
    RejectAll =>
        /\ Ran(validated["alice"]) \subseteq Entries(store0["bob"])
        /\ Ran(validated["bob"]) \subseteq Entries(store0["alice"])
        /\ NoDuplicateKey(validated["alice"])
        /\ NoDuplicateKey(validated["bob"])
        /\ pc = "done" =>
            /\ \A e \in Entries(store0["bob"]) :
                  key(e) \notin DOMAIN store0["alice"]
                      => e \in Ran(validated["alice"])
            /\ \A e \in Entries(store0["alice"]) :
                  key(e) \notin DOMAIN store0["bob"]
                      => e \in Ran(validated["bob"])

\* A finished reject-all session between sets that share a key and differ in
\* others: each hook saw the entries its peer lacked.
C6_Witness ==
    /\ RejectAll /\ pc = "done"
    /\ DOMAIN store0["alice"] \cap DOMAIN store0["bob"] # {}
    /\ DOMAIN store0["alice"] \ DOMAIN store0["bob"] # {}
    /\ DOMAIN store0["bob"] \ DOMAIN store0["alice"] # {}
    /\ validated["alice"] # <<>> /\ validated["bob"] # <<>>
    /\ Ran(validated["alice"]) # Entries(store0["bob"])

\* Whether the ranges of subs are pairwise disjoint and cover exactly the
\* keys of range.
IsPartition(range, subs) ==
    \A t \in Keys :
        Cardinality({i \in 1..Len(subs) : contains(subs[i], t)})
            = (IF contains(range, t) THEN 1 ELSE 0)

\* C7 as stated: the xor of the fingerprints of the two sub-ranges of any
\* partition of a range into two equals the fingerprint of the range.
C7_Original ==
    call.op = "get_fingerprint" =>
        \A m \in Keys :
            LET r == call.range
                data == store["alice"]
            IN  IsPartition(r, <<Range(r.x, m), Range(m, r.y)>>) =>
                    bitxor(get_fingerprint(data, Range(r.x, m)),
                           get_fingerprint(data, Range(m, r.y))) = call.result

\* C7 amended: every range fingerprint carries Fingerprint::empty() once, so
\* the xor of the sub-range fingerprints of a partition equals the fingerprint
\* of the range for an odd number of sub-ranges (three here) and that
\* fingerprint xor Fingerprint::empty() for an even number (two here):
\* fp(A \cup B) = fp(A) xor fp(B) xor empty().  A range with no entry has the
\* fingerprint Fingerprint::empty().
C7_FingerprintHomomorphism ==
    call.op = "get_fingerprint" =>
        LET r == call.range
            data == store["alice"]
            fp(a, b) == get_fingerprint(data, Range(a, b))
        IN  /\ \A m \in Keys :
                  IsPartition(r, <<Range(r.x, m), Range(m, r.y)>>) =>
                      bitxor(fp(r.x, m), fp(m, r.y))
                          = bitxor(call.result, Fingerprint_empty)
            /\ \A m1 \in Keys, m2 \in Keys :
                  IsPartition(r, <<Range(r.x, m1), Range(m1, m2),
                                   Range(m2, r.y)>>) =>
                      bitxor(bitxor(fp(r.x, m1), fp(m1, m2)), fp(m2, r.y))
                          = call.result
            /\ (\A k \in DOMAIN data : ~contains(r, k)) =>
                  call.result = Fingerprint_empty

\* The fingerprint of a range was taken whose partition into two has entries
\* on both sides.
C7_Witness ==
    /\ call.op = "get_fingerprint"
    /\ \E m \in Keys :
          LET r == call.range
              data == store["alice"]
          IN  /\ IsPartition(r, <<Range(r.x, m), Range(m, r.y)>>)
              /\ get_range(data, Range(r.x, m)) # <<>>
              /\ get_range(data, Range(m, r.y)) # <<>>
              /\ bitxor(get_fingerprint(data, Range(r.x, m)),
                        get_fingerprint(data, Range(m, r.y))) # call.result

\* C8: contains(t) is true for x = y, is x <= t < y for x < y, and is
\* x <= t or t < y for x > y; exactly one of the three cases applies, and
\* is_all() holds iff x = y.
C8_RangeContainment ==
    call.op = "contains" =>
        LET x == call.range.x
            y == call.range.y
            t == call.t
        IN  /\ x = y => call.result = TRUE
            /\ x < y => call.result = (x <= t /\ t < y)
            /\ x > y => call.result = (x <= t \/ t < y)
            /\ Cardinality({c \in {"all", "normal", "wrap"} :
                                \/ c = "all" /\ x = y
                                \/ c = "normal" /\ x < y
                                \/ c = "wrap" /\ x > y}) = 1
            /\ call.is_all = (x = y)

\* contains was asked of a wrap-around range for a key below its y.
C8_Witness ==
    /\ call.op = "contains"
    /\ call.range.x > call.range.y
    /\ call.t < call.range.y
    /\ call.result = TRUE
    /\ call.is_all = FALSE

\* C9: get_range(r) yields exactly the stored entries whose key r contains,
\* each once, in ascending key order, for normal, wrap and all ranges alike;
\* all() yields what get_range yields for an all-range.
C9_StoreRangeQuery ==
    /\ call.op = "get_range" =>
          /\ Ran(call.result)
                 = {e \in Entries(store["alice"]) : contains(call.range, key(e))}
          /\ \A i, j \in 1..Len(call.result) :
                 i < j => key(call.result[i]) < key(call.result[j])
    /\ call.op = "all" =>
          \A x \in Keys : call.result = get_range(store["alice"], Range(x, x))

\* get_range was called with a wrap-around range that holds entries on both
\* sides of the wrap.
C9_Witness ==
    /\ call.op = "get_range"
    /\ call.range.x > call.range.y
    /\ Len(call.result) >= 2
    /\ key(call.result[1]) < call.range.y
    /\ key(call.result[Len(call.result)]) >= call.range.x
    /\ Len(call.result) < Cardinality(DOMAIN store["alice"])

\* C10: initial_message returns one part, the RangeFingerprint of the range
\* (x, x) with x the smallest stored key (the key default for an empty store),
\* carrying Fingerprint::empty() xor-ed with every entry; the store is unchanged.
C10_InitialMessage ==
    [][(pc \in {"start", "done"} /\ pc' = "toBob") =>
          LET data == store["alice"]
              x == IF DOMAIN data = {} THEN KeyDefault
                   ELSE CHOOSE k \in DOMAIN data : \A j \in DOMAIN data : k <= j
          IN  /\ Len(msg') = 1
              /\ is_range_fingerprint(msg'[1])
              /\ msg'[1].range = Range(x, x)
              /\ msg'[1].fingerprint = xor_all(Fingerprint_empty, all(data))
              /\ DOMAIN data = {} => msg'[1].fingerprint = Fingerprint_empty
              /\ store' = store]_vars

\* The initial message of a store whose smallest key is not the key default is
\* in flight.
C10_Witness ==
    /\ pc = "toBob" /\ rounds = 0 /\ alice_to_bob = <<>>
    /\ Cardinality(DOMAIN store["alice"]) >= 2
    /\ KeyDefault \notin DOMAIN store["alice"]
    /\ Len(msg) = 1 /\ msg[1].range.x \in DOMAIN store["alice"]

---------------------------------------------------------------------------
\* C11: whenever a store call made by process_message returns Err, or an
\* iterator it was given yields one, process_message returns Err (and so
\* neither Some(message) nor None).
C11_ErrorPropagation ==
    (call.op = "process_message" /\ call.result.failed) => call.result.err

\* C12: in a call in which no store call fails, validate_cb is called once
\* for each entry of each RangeItem, in the order of the message, with the
\* store as it is after the entries before it; the entry is put iff that call
\* returned true, so the store after the call is the store before it with
\* exactly the accepted entries put in order; the call returns no error, and
\* a rejected entry is in no outbound part: every part is the diff of a
\* RangeItem, made of entries the store held during the call.
C12_ValidateGating ==
    (call.op = "process_message" /\ call.fault = NoFault) =>
        LET items == SelectSeq(call.message, is_range_item)
            vs == Flatten([i \in 1..Len(items) |-> items[i].values])
            d[i \in 0..Len(vs)] ==
                IF i = 0 THEN call.before
                ELSE IF validate_cb(call.policy, d[i - 1], vs[i])
                     THEN put(d[i - 1], vs[i])
                     ELSE d[i - 1]
            r == call.result
        IN  /\ r.seen = vs
            /\ r.store = d[Len(vs)]
            /\ ~r.err
            /\ call.policy = "reject" => r.store = call.before
            /\ \A j \in 1..Len(r.out) :
                   /\ is_range_item(r.out[j]) /\ r.out[j].have_local
                   /\ \A e \in Ran(r.out[j].values) :
                          /\ \E i \in 0..Len(vs) : e \in Entries(d[i])
                          /\ \E i \in 1..Len(items) :
                                 /\ ~items[i].have_local
                                 /\ items[i].range = r.out[j].range
                                 /\ ~any_key(items[i].values, e)

\* A call whose callback accepted the first entry of a RangeItem and, looking
\* at the store that then held it, rejected the second.
C12_Witness ==
    /\ call.op = "process_message" /\ call.fault = NoFault
    /\ call.policy = "limit"
    /\ Len(call.message) = 1
    /\ Len(call.message[1].values) = 2
    /\ key(call.message[1].values[1]) # key(call.message[1].values[2])
    /\ call.before # EmptyData
    /\ call.message[1].values[1] \in Entries(call.result.store)
    /\ call.message[1].values[1] \notin Entries(call.before)
    /\ key(call.message[1].values[2]) \notin DOMAIN call.result.store
    /\ call.result.seen = call.message[1].values

\* The kinds of the parts of a message, in order.
Kinds(message) == [i \in 1..Len(message) |-> message[i].type]

\* C13: the session of alice_set and bob_set, once ended, consists of three
\* messages from Alice and two from Bob whose parts are [fingerprint],
\* [fingerprint, fingerprint], [fingerprint, fingerprint, item] and
\* [item, item], in this order, and leaves both stores equal to the union.
C13_PaperTrace ==
    (/\ store0 = [alice |-> alice_set, bob |-> bob_set]
     /\ pc = "done"
     /\ alice_to_bob[1] = initial_message(alice_set)) =>
        /\ Len(alice_to_bob) = 3 /\ Len(bob_to_alice) = 2
        /\ Kinds(alice_to_bob[1]) = <<"RangeFingerprint">>
        /\ Kinds(bob_to_alice[1]) = <<"RangeFingerprint", "RangeFingerprint">>
        /\ Kinds(alice_to_bob[2])
               = <<"RangeFingerprint", "RangeFingerprint", "RangeItem">>
        /\ Kinds(bob_to_alice[2]) = <<"RangeItem", "RangeItem">>
        /\ store["alice"] = Union0 /\ store["bob"] = Union0
        /\ DOMAIN Union0 = 1..Len(Animals)

\* The session of the two sets of the test has ended.
C13_Witness ==
    /\ store0 = [alice |-> alice_set, bob |-> bob_set]
    /\ pc = "done"
    /\ alice_to_bob[1] = initial_message(alice_set)
    /\ rounds = 3
    /\ store["alice"] = store["bob"]

\* The entries of a store in ascending key order.
IsAllOf(values, data) ==
    /\ Ran(values) = Entries(data)
    /\ \A i, j \in 1..Len(values) : i < j => key(values[i]) < key(values[j])

\* C14: when Alice's store is empty and Bob's is not, Bob answers the initial
\* message with one message of a single RangeItem over the range of that
\* message, carrying every entry of his store with have_local = false; Alice's
\* process_message of it returns None, which ends the session after one
\* message each way, and with an accepting callback her store equals Bob's.
C14_EmptyInitiator ==
    [][(store["alice"] = EmptyData /\ store["bob"] # EmptyData) =>
          /\ (pc = "toBob" /\ rounds = 0) =>
                /\ msg = <<RangeFingerprint(Range(KeyDefault, KeyDefault),
                                            Fingerprint_empty)>>
                /\ pc' = "toAlice"
                /\ Len(msg') = 1
                /\ is_range_item(msg'[1])
                /\ msg'[1].range = Range(KeyDefault, KeyDefault)
                /\ IsAllOf(msg'[1].values, store["bob"])
                /\ ~msg'[1].have_local
                /\ alice_to_bob' = <<msg>> /\ bob_to_alice' = <<msg'>>
                /\ store' = store
          /\ pc = "toAlice" =>
                /\ pc' = "done" /\ msg' = <<>>
                /\ Len(alice_to_bob') = 1 /\ Len(bob_to_alice') = 1
                /\ rounds' = 1
                /\ store'["bob"] = store["bob"]
                /\ AcceptAll => store'["alice"] = store["bob"]]_vars

\* A session started by an empty Alice has ended with her store equal to
\* Bob's several entries.
C14_Witness ==
    /\ AcceptAll /\ pc = "done" /\ rounds = 1
    /\ store0["alice"] = EmptyData
    /\ Cardinality(DOMAIN store0["bob"]) >= 3
    /\ Len(alice_to_bob) = 1 /\ Len(bob_to_alice) = 1
    /\ Len(bob_to_alice[1]) = 1 /\ Len(bob_to_alice[1][1].values) >= 3
    /\ store["alice"] = store0["bob"] /\ store["bob"] = store0["bob"]

\* C15: a session with accepting callbacks during which no put from outside
\* was made ends with the two stores equal, whatever the two sets were; with
\* such a put there are sessions that end with the stores unequal
\* (C15_Witness is such an end).
C15_FrozenSetsConverge ==
    (pc = "done" /\ call = NoCall) => store["alice"] = store["bob"]

\* A session has ended, a process_message having returned None, after a put
\* from outside between two of its calls, and the stores differ.
C15_Witness ==
    /\ pc = "done" /\ call.op = "put"
    /\ store["alice"] # store["bob"]

---------------------------------------------------------------------------
(* A call of process_message with a RangeFingerprint part (SplitSpec)      *)

\* The call in `call` is one whose message ends with a RangeFingerprint part.
FingerprintCall ==
    /\ call.op = "process_message" /\ call.fault = NoFault
    /\ is_range_fingerprint(call.message[Len(call.message)])

Remote == call.message[Len(call.message)]

\* The store once the RangeItem part before the fingerprint, if there is one,
\* has been stored.
Ingested ==
    IF Len(call.message) = 2
    THEN put(call.before, call.message[1].values[1])
    ELSE call.before

\* The local entries in a range, and those in the range of the fingerprint.
LocalIn(range) == get_range(Ingested, range)

LocalValues == LocalIn(Remote.range)

Mismatch ==
    FingerprintCall /\ get_fingerprint(Ingested, Remote.range) # Remote.fingerprint

Case3 ==
    Mismatch /\ Len(LocalValues) >= 2 /\ Remote.fingerprint # Fingerprint_empty

\* C16: when the fingerprint of a RangeFingerprint part equals the local one
\* over its range, taken of the store that holds the RangeItem parts of the
\* same message, process_message pushes no part for it and the store stays
\* what the RangeItem parts made it.
C16_CaseMatch ==
    (/\ FingerprintCall
     /\ get_fingerprint(Ingested, Remote.range) = Remote.fingerprint) =>
        /\ call.result.out = <<>>
        /\ call.result.store = Ingested
        /\ ~call.result.err /\ call.result.ok

\* A fingerprint that matches only because of the RangeItem part before it was
\* answered with nothing, for a range of several local entries.
C16_Witness ==
    /\ FingerprintCall
    /\ Len(call.message) = 2
    /\ get_fingerprint(Ingested, Remote.range) = Remote.fingerprint
    /\ get_fingerprint(call.before, Remote.range) # Remote.fingerprint
    /\ Len(LocalValues) >= 2
    /\ call.result.out = <<>>

\* C17: when the fingerprints differ and the range holds at most one local
\* entry or the remote fingerprint is Fingerprint::empty(), exactly one part
\* is pushed: a RangeItem of the same range with all local entries of the
\* range in key order (none, if there is none) and have_local = false.
C17_CaseAnchor ==
    (Mismatch /\ (Len(LocalValues) <= 1
                    \/ Remote.fingerprint = Fingerprint_empty)) =>
        /\ Len(call.result.out) = 1
        /\ is_range_item(call.result.out[1])
        /\ call.result.out[1].range = Remote.range
        /\ Ran(call.result.out[1].values)
               = {e \in Entries(Ingested) : contains(Remote.range, key(e))}
        /\ \A i, j \in 1..Len(call.result.out[1].values) :
               i < j => key(call.result.out[1].values[i])
                            < key(call.result.out[1].values[j])
        /\ ~call.result.out[1].have_local
        /\ call.result.store = Ingested

\* The empty fingerprint over a wrap-around range was answered with the
\* several local entries of the range, which are not the whole store.
C17_Witness ==
    /\ Mismatch
    /\ Remote.fingerprint = Fingerprint_empty
    /\ Remote.range.x > Remote.range.y
    /\ Len(LocalValues) >= 2
    /\ Len(LocalValues) < len(Ingested)
    /\ call.result.out = <<RangeItem(Remote.range, LocalValues, FALSE)>>

\* C18: in Case 3 every part pushed is, for a sub-range with more than
\* max_set_size local entries, the RangeFingerprint of the local fingerprint
\* of the sub-range, and otherwise the RangeItem of its local entries with
\* have_local = false; there are at most split_factor parts, and none is
\* about a sub-range without a local entry.
C18_SplitEmission ==
    Case3 =>
        LET out == call.result.out
        IN  /\ \A j \in 1..Len(out) :
                   out[j] = IF Len(LocalIn(out[j].range)) > max_set_size["bob"]
                            THEN RangeFingerprint(
                                     out[j].range,
                                     get_fingerprint(Ingested, out[j].range))
                            ELSE RangeItem(out[j].range, LocalIn(out[j].range),
                                           FALSE)
            /\ Len(out) <= split_factor["bob"]
            /\ \A j \in 1..Len(out) : LocalIn(out[j].range) # <<>>

\* C19: in Case 3 pivot(0) differs from range.x, and the first sub-range
\* (range.x, pivot(0)) pushed for a range that is not the all-range is not
\* the all-range.
C19_PivotDistinct ==
    Case3 =>
        /\ pivot(LocalValues, Remote.range, split_factor["bob"], 0)
               # Remote.range.x
        /\ ~is_all(Remote.range) =>
               /\ call.result.out[1].range.x = Remote.range.x
               /\ ~is_all(call.result.out[1].range)

\* C20: in Case 3 the assertion non_empty > 1 holds, at least two of the
\* sub-ranges hold a local entry, and every sub-range holds fewer local
\* entries than the range that was split.
C20_Progress ==
    Case3 =>
        LET out == call.result.out
        IN  /\ call.result.ok
            /\ Cardinality({j \in 1..Len(out) :
                                LocalIn(out[j].range) # <<>>}) >= 2
            /\ \A j \in 1..Len(out) :
                   Len(LocalIn(out[j].range)) < Len(LocalValues)

---------------------------------------------------------------------------
\* The ranges of the parts pushed by the call, in order.
SubRanges == [j \in 1..Len(call.result.out) |-> call.result.out[j].range]

\* C21: in Case 3 over an all-range the sub-ranges pushed are the pairs
\* (pivot(i), pivot(i + 1)) of distinct pivots; exactly one of them wraps
\* around, and every key lies in exactly one of them.
C21_AllRangeSplit ==
    (Case3 /\ is_all(Remote.range)) =>
        /\ \A j \in 1..Len(SubRanges) :
               /\ SubRanges[j].x # SubRanges[j].y
               /\ \E i \in 0..(split_factor["bob"] - 1) :
                      SubRanges[j]
                          = Range(pivot(LocalValues, Remote.range,
                                        split_factor["bob"], i),
                                  pivot(LocalValues, Remote.range,
                                        split_factor["bob"], i + 1))
        /\ Cardinality({j \in 1..Len(SubRanges) :
                            SubRanges[j].x > SubRanges[j].y}) = 1
        /\ IsPartition(Remote.range, SubRanges)

\* An all-range holding two local entries was split in three: two pivots
\* coincide and two sub-ranges are left.
C21_Witness ==
    /\ Case3 /\ is_all(Remote.range)
    /\ split_factor["bob"] = 3
    /\ Len(LocalValues) = 2
    /\ Len(SubRanges) = 2
    /\ SubRanges[1].x < SubRanges[1].y
    /\ SubRanges[2].x > SubRanges[2].y

\* C22: in Case 3 over a range that is not the all-range, the first part is
\* about (range.x, pivot(0)) and the last about (pivot(split_factor - 2),
\* range.y), and each of the two sub-ranges holds a local entry.
C22_SplitEndpoints ==
    (Case3 /\ ~is_all(Remote.range)) =>
        LET first == Range(Remote.range.x,
                           pivot(LocalValues, Remote.range,
                                 split_factor["bob"], 0))
            last == Range(pivot(LocalValues, Remote.range, split_factor["bob"],
                                split_factor["bob"] - 2),
                          Remote.range.y)
        IN  /\ SubRanges[1] = first
            /\ SubRanges[Len(SubRanges)] = last
            /\ LocalIn(first) # <<>>
            /\ LocalIn(last) # <<>>

\* C27: in Case 3 over a range that is not the all-range the sub-ranges
\* pushed are pairwise disjoint and their union is the range: every key of the
\* range lies in exactly one of them and every other key in none.
C27_SplitPartition ==
    (Case3 /\ ~is_all(Remote.range)) =>
        /\ \A t \in Keys :
               contains(Remote.range, t)
                   => \E j \in 1..Len(SubRanges) : contains(SubRanges[j], t)
        /\ \A t \in Keys :
               ~contains(Remote.range, t)
                   => \A j \in 1..Len(SubRanges) : ~contains(SubRanges[j], t)
        /\ \A i, j \in 1..Len(SubRanges) :
               i # j => \A t \in Keys : ~(/\ contains(SubRanges[i], t)
                                          /\ contains(SubRanges[j], t))

---------------------------------------------------------------------------
(* A call of process_message with RangeItem parts only (PeerSpec)          *)

\* The call in `call` is one of a message of RangeItem parts during which no
\* store call failed.
ItemCall ==
    /\ call.op = "process_message" /\ call.fault = NoFault
    /\ \A i \in 1..Len(call.message) : is_range_item(call.message[i])

\* A store once the values the callback accepts, each asked of the store as it
\* then is, have been put in order.
RECURSIVE Accepted(_, _, _)
Accepted(data, values, policy) ==
    IF values = <<>> THEN data
    ELSE Accepted(IF validate_cb(policy, data, Head(values))
                  THEN put(data, Head(values)) ELSE data,
                  Tail(values), policy)

\* The store before the first value of part i of the message is handled.
Before(i) ==
    Accepted(call.before,
             Flatten([k \in 1..(i - 1) |-> call.message[k].values]),
             call.policy)

\* The entries the store holds in the range of part i, before that part, under
\* keys that are not among the keys of the values of the part.
Diff(i) ==
    {e \in Entries(Before(i)) :
        /\ contains(call.message[i].range, key(e))
        /\ \A v \in Ran(call.message[i].values) : key(v) # key(e)}

\* The parts that ask for a reply and have one to get, in message order.
Replied ==
    SortedKeys({i \in 1..Len(call.message) :
                    ~call.message[i].have_local /\ Diff(i) # {}})

\* C23: the parts sent back for the RangeItem parts with have_local = false
\* carry, each for its part and in key order, exactly the entries the store
\* held in the range before any value of the part was put whose key is not
\* among the keys received in the part: no entry received in the part and no
\* entry under a key received in the part is sent back.
C23_DiffBeforeInsert ==
    ItemCall =>
        LET out == call.result.out
        IN  /\ Len(out) = Len(Replied)
            /\ \A j \in 1..Len(out) :
                   LET part == call.message[Replied[j]]
                   IN  /\ out[j].range = part.range
                       /\ Ran(out[j].values) = Diff(Replied[j])
                       /\ \A a, b \in 1..Len(out[j].values) :
                              a < b => key(out[j].values[a])
                                           < key(out[j].values[b])
                       /\ Ran(out[j].values) \cap Ran(part.values) = {}
                       /\ \A e \in Ran(out[j].values), v \in Ran(part.values) :
                              key(e) # key(v)

\* A part brought an entry under a key the store held with another value and
\* was answered with the other entry the store held in its range; the entry
\* received has replaced the one held.
C23_Witness ==
    /\ ItemCall /\ call.policy = "accept"
    /\ Len(call.message) = 1
    /\ ~call.message[1].have_local
    /\ \E e \in Entries(call.before), v \in Ran(call.message[1].values) :
           /\ key(e) = key(v) /\ e # v
           /\ contains(call.message[1].range, key(e))
           /\ v \in Entries(call.result.store)
    /\ Len(call.result.out) = 1
    /\ call.result.out[1].values # <<>>
    /\ Len(call.result.out[1].values) < len(call.before)

\* C25: a RangeItem part with have_local = true causes no part of the reply;
\* one with have_local = false causes one part if its diff is not empty, a
\* RangeItem of the same range with have_local = true, and none if it is
\* empty.  So every part sent back for a RangeItem has have_local = true, and
\* a peer that processes the reply, whatever it holds, sends nothing back.
C25_ItemReplyRule ==
    ItemCall =>
        LET out == call.result.out
            asking == {i \in 1..Len(call.message) : ~call.message[i].have_local}
        IN  /\ Len(out) = Cardinality({i \in asking : Diff(i) # {}})
            /\ asking = {} => out = <<>>
            /\ \A j \in 1..Len(out) :
                   /\ out[j] = RangeItem(out[j].range, out[j].values, TRUE)
                   /\ out[j].values # <<>>
                   /\ \E i \in asking : call.message[i].range = out[j].range
            /\ \A data \in {EmptyData, call.before, call.result.store} :
                   process_message(data, max_set_size["bob"],
                                   split_factor["bob"], out,
                                   call.policy).out = <<>>

\* A part with have_local = true, whose range holds local entries the sender
\* did not ship, was stored and answered with nothing.
C25_Witness ==
    /\ ItemCall /\ call.policy = "accept"
    /\ Len(call.message) = 1
    /\ call.message[1].have_local
    /\ call.message[1].values # <<>>
    /\ Diff(1) # {}
    /\ call.result.out = <<>>
    /\ call.result.store # call.before

---------------------------------------------------------------------------
\* The call in `call` is one of a message of two parts, a RangeItem and a
\* RangeFingerprint in either order.
MixedCall ==
    /\ call.op = "process_message" /\ call.fault = NoFault
    /\ Len(call.message) = 2
    /\ Len(SelectSeq(call.message, is_range_item)) = 1

\* C24: the call answers a message of a RangeItem and a RangeFingerprint, in
\* either order, as the two calls would that handle first the RangeItem alone
\* and then, on the store this left, the RangeFingerprint alone: the accepted
\* values are stored, the reply to the RangeItem comes first in out, and the
\* RangeFingerprint is compared and answered from the store that holds them.
C24_IngestBeforeRespond ==
    MixedCall =>
        LET item == SelectSeq(call.message, is_range_item)
            fp == SelectSeq(call.message, is_range_fingerprint)
            a == process_message(call.before, max_set_size["bob"],
                                 split_factor["bob"], item, call.policy)
            b == process_message(a.store, max_set_size["bob"],
                                 split_factor["bob"], fp, call.policy)
        IN  /\ call.result.seen = item[1].values
            /\ a.store = Accepted(call.before, item[1].values, call.policy)
            /\ call.result.store = a.store
            /\ call.result.out = a.out \o b.out
            /\ get_fingerprint(a.store, fp[1].range) = fp[1].fingerprint
                   => call.result.out = a.out

\* A fingerprint that comes before the RangeItem in the message and matches
\* the store only once the value of the RangeItem is in it was answered with
\* nothing; the reply is the one to the RangeItem.
C24_Witness ==
    /\ MixedCall
    /\ is_range_fingerprint(call.message[1])
    /\ call.result.store # call.before
    /\ get_fingerprint(call.before, call.message[1].range)
           # call.message[1].fingerprint
    /\ get_fingerprint(call.result.store, call.message[1].range)
           = call.message[1].fingerprint
    /\ Len(call.result.out) = 1
    /\ call.result.out[1].have_local

---------------------------------------------------------------------------
\* C26: a process_message of the exchange returns None, which ends the
\* session, iff the call pushed no part, and otherwise Some of the message of
\* the parts pushed; so every message in flight, the initial message
\* included, and every message the exchange has recorded has a part.
C26_TerminationSignal ==
    [][/\ (pc = "toBob" /\ rounds < max_rounds) =>
              LET r == process_message(store["bob"], max_set_size["bob"],
                                       split_factor["bob"], msg,
                                       validate["bob"])
              IN  r.ok => /\ pc' = "done" <=> r.out = <<>>
                          /\ pc' # "done" => (pc' = "toAlice" /\ msg' = r.out)
       /\ pc = "toAlice" =>
              LET r == process_message(store["alice"], max_set_size["alice"],
                                       split_factor["alice"], msg,
                                       validate["alice"])
              IN  r.ok => /\ pc' = "done" <=> r.out = <<>>
                          /\ pc' # "done" => (pc' = "toBob" /\ msg' = r.out)
       /\ pc' \in {"toBob", "toAlice"} => msg' # <<>>
       /\ \A i \in 1..Len(alice_to_bob') : alice_to_bob'[i] # <<>>
       /\ \A i \in 1..Len(bob_to_alice') : bob_to_alice'[i] # <<>>]_vars

\* Bob's second process_message pushed no part and returned None: the session
\* has ended after two messages of Alice and one of Bob, each with a part.
C26_Witness ==
    /\ pc = "done" /\ msg = <<>>
    /\ rounds = 2
    /\ Len(alice_to_bob) = 2 /\ Len(bob_to_alice) = 1
    /\ alice_to_bob[2] # <<>> /\ bob_to_alice[1] # <<>>

---------------------------------------------------------------------------
\* The keys under which A and B hold different entries.
Conflicts0 ==
    {k \in DOMAIN store0["alice"] \cap DOMAIN store0["bob"] :
        store0["alice"][k] # store0["bob"][k]}

\* C28: with validate accepting everything, also when A and B hold different
\* entries under a key, the session ends, and then both stores hold the same
\* entry under every key of A and B, one of the entries A or B held under it,
\* and the fingerprints of the two stores over the all-range are equal.
C28_ConflictAgreement ==
    AcceptAll =>
        /\ Terminates
        /\ pc = "done" =>
               /\ store["alice"] = store["bob"]
               /\ DOMAIN store["alice"]
                      = DOMAIN store0["alice"] \cup DOMAIN store0["bob"]
               /\ Entries(store["alice"])
                      \subseteq Entries(store0["alice"])
                                    \cup Entries(store0["bob"])
               /\ \A x \in Keys :
                      get_fingerprint(store["alice"], Range(x, x))
                          = get_fingerprint(store["bob"], Range(x, x))

\* A session between sets with two conflicting keys has ended in agreement,
\* Alice's entry having won under one of them and Bob's under the other.
C28_Witness ==
    /\ AcceptAll /\ pc = "done"
    /\ store["alice"] = store["bob"]
    /\ \E k \in Conflicts0 : store["alice"][k] = store0["alice"][k]
    /\ \E k \in Conflicts0 : store["alice"][k] = store0["bob"][k]

---------------------------------------------------------------------------
\* C29: no step of a session takes a key out of a store: after every step
\* each store holds every key it held before the step and every key it
\* started with, and every entry it holds is an entry of A or of B.
C29_NoLossNoFabrication ==
    [][\A p \in Peers :
           /\ DOMAIN store[p] \subseteq DOMAIN store'[p]
           /\ DOMAIN store0[p] \subseteq DOMAIN store'[p]
           /\ Entries(store'[p])
                  \subseteq Entries(store0["alice"]) \cup Entries(store0["bob"])]_vars

\* A session in which each store has grown by keys of the other, and one of
\* them in two steps, has ended.
C29_Witness ==
    /\ pc = "done" /\ rounds >= 3
    /\ DOMAIN store0["alice"] # {} /\ DOMAIN store0["bob"] # {}
    /\ DOMAIN store["alice"] \ DOMAIN store0["alice"] # {}
    /\ DOMAIN store["bob"] \ DOMAIN store0["bob"] # {}
    /\ Conflicts0 # {}

---------------------------------------------------------------------------
\* The peer whose process_message returned the message in flight, if one did.
Sender ==
    IF pc = "toAlice" THEN {"bob"}
    ELSE IF pc = "toBob" /\ rounds >= 1 THEN {"alice"}
    ELSE {}

\* C30: in every message a process_message of a session returned, the values
\* of every RangeItem part have keys the range of the part contains, no two
\* of them the same key, and are entries of the store of the peer that
\* returned it.
C30_ShippedValuesInRange ==
    \A p \in Sender :
        \A j \in 1..Len(msg) :
            is_range_item(msg[j]) =>
                /\ \A e \in Ran(msg[j].values) :
                       /\ contains(msg[j].range, key(e))
                       /\ e \in Entries(store[p])
                /\ NoDuplicateKey(msg[j].values)

\* Alice has answered with a message that holds both a part that replies to a
\* RangeItem and a part for a range she split or anchored, whose values are
\* not all she holds.
C30_Witness ==
    /\ pc = "toBob" /\ rounds >= 1
    /\ \E j \in 1..Len(msg) :
           /\ is_range_item(msg[j]) /\ msg[j].have_local
           /\ msg[j].values # <<>>
           /\ Len(msg[j].values) < len(store["alice"])
    /\ \E j \in 1..Len(msg) :
           /\ is_range_item(msg[j]) /\ ~msg[j].have_local
           /\ msg[j].values # <<>>
           /\ msg[j].range.x > msg[j].range.y

---------------------------------------------------------------------------
\* A message that brings no value: RangeFingerprint parts and RangeItem parts
\* without values.
NoValues(message) ==
    \A i \in 1..Len(message) :
        is_range_fingerprint(message[i]) \/ message[i].values = <<>>

\* C31: a process_message of a message that brings no value leaves the store
\* as it was, whichever of the cases its RangeFingerprint parts take and
\* whatever it sends back, and no step changes max_set_size or split_factor.
C31_ReadOnlyResponding ==
    [][/\ max_set_size' = max_set_size
       /\ split_factor' = split_factor
       /\ (call = NoCall /\ call'.op = "process_message"
             /\ NoValues(call'.message)) =>
              /\ store' = store
              /\ call'.result.store = call'.before
              /\ call'.result.seen = <<>>
              /\ ~call'.result.err]_vars

\* A RangeFingerprint alone was answered by a split that sent both a
\* fingerprint and the entries of a sub-range, and the store is as before.
C31_Witness ==
    /\ Case3 /\ Len(call.message) = 1
    /\ \E j \in 1..Len(call.result.out) :
           is_range_fingerprint(call.result.out[j])
    /\ \E j \in 1..Len(call.result.out) :
           is_range_item(call.result.out[j]) /\ call.result.out[j].values # <<>>
    /\ store["bob"] = call.before
    /\ split_factor["bob"] = 3

---------------------------------------------------------------------------
\* C32: for x # y a key is contained in exactly one of Range(x, y) and
\* Range(y, x), so the two partition the keys, the wrap-around one holding
\* the keys the regular one does not; for x = y both contain every key.
C32_ComplementaryRanges ==
    call.op = "contains" =>
        LET x == call.range.x
            y == call.range.y
            swapped == Range(y, x)
        IN  /\ x # y =>
                  /\ call.result # contains(swapped, call.t)
                  /\ \A t \in Keys : contains(call.range, t) # contains(swapped, t)
                  /\ IsPartition(Range(x, x), <<call.range, swapped>>)
                  /\ x > y => \A t \in Keys :
                                  contains(call.range, t) = ~(y <= t /\ t < x)
            /\ x = y =>
                  /\ call.result /\ contains(swapped, call.t)
                  /\ \A t \in Keys : contains(call.range, t) /\ contains(swapped, t)

\* contains was asked of a wrap-around range for a key in its gap: the answer
\* was false, and the swapped, regular range contains the key.
C32_Witness ==
    /\ call.op = "contains"
    /\ call.range.x > call.range.y
    /\ call.range.y <= call.t /\ call.t < call.range.x
    /\ call.result = FALSE
    /\ contains(Range(call.range.y, call.range.x), call.t)

====
